---- MODULE Spec2Model ----
(***************************************************************************)
(* State-diff synchronisation of papyrus_sync (crates/papyrus_sync/src/    *)
(* state.rs): the Sync Loop run_state_diff_sync / stream_new_state_diffs,  *)
(* the Commit Router store_state_diff and the Reorg Detector is_reverted,  *)
(* running against the storage facade and an upstream source.              *)
(*                                                                         *)
(* A state diff is identified by the pair <<block_number, block_hash>> of  *)
(* the item that carries it.                                               *)
(***************************************************************************)
EXTENDS Integers, Sequences, FiniteSets, TLC

\* ------------------------------------------------------------------ bounds
MaxBlock == 2        \* headers 0 .. MaxBlock-1 can be appended
ChanCap  == 1        \* capacity of the bounded mpsc channel
MaxFail  == 1        \* the upstream source fails at most MaxFail times
MaxKey   == 2        \* the keys of a mapping of a state diff are 1 .. MaxKey

Hashes   == {"hA", "hB"}
NoHeader == "none"
Blocks   == 0 .. (MaxBlock - 1)
Items    == Blocks \X Hashes

VARIABLES
    headers,        \* storage: block number -> hash of the stored header, or NoHeader
    header_marker,  \* storage: next header to be appended
    state_marker,   \* storage: next state diff to be appended
    state_diffs,    \* storage: canonical state diffs, in the order they were committed
    ommers,         \* storage: the block hashes that key an ommer state diff
    channel,        \* SyncEvent::StateDiffAvailable events in flight
    closed,         \* the receiver of the channel is gone
    last_route,     \* the last store_state_diff call: its classification, what it
                    \* committed and what it returned
    pc,             \* where run_state_diff_sync is
    range,          \* <<state_marker, last_block_number>> of the current pass
    pos,            \* next block an ordered source yields in the current stream
    cur,            \* the item taken from the stream in this iteration
    err,            \* the call whose error the Err arm holds while it sleeps
    fails_left,     \* failures an ordered source may still produce
    err_sleeps,     \* sleeps of recoverable_error_sleep_duration started, counted
                    \* no further than the failures the source has produced
    ro_txns,        \* read-only storage transactions the Sync Loop holds open
    sort_trace      \* a state diff as the source delivered it, followed by what each
                    \* call of sort_state_diff made of it (`mut state_diff`)

vars == <<headers, header_marker, state_marker, state_diffs, ommers, channel, closed,
          last_route, pc, range, pos, cur, err, fails_left, err_sleeps, ro_txns,
          sort_trace>>

storage == <<headers, header_marker, state_marker, state_diffs, ommers>>
loop    == <<pc, range, pos, cur, err>>
counts  == <<fails_left, err_sleeps>>
normalizer == <<sort_trace>>

NoItem  == <<MaxBlock, NoHeader>>
NoRange == <<0, 0>>

\* Failures the source has produced so far.
SrcFails == MaxFail - fails_left

\* A storage operation that can fail does so only where faults are allowed.
Faults(faulty) == IF faulty THEN {FALSE, TRUE} ELSE {FALSE}

\* -------------------------------------------------------- Diff Normalizer
Keys == 1 .. MaxKey

\* The value a mapping holds under key k.
ValueOf(k) == k + 10

\* The orders in which the entries of a mapping with keys from keys can come.
KeyOrders(keys) ==
    UNION {{o \in [1 .. Cardinality(K) -> K] :
               \A i, j \in 1 .. Cardinality(K) : i # j => o[i] # o[j]} : K \in SUBSET keys}

\* An IndexMap is the sequence of its entries <<key, value>> in iteration order; its
\* keys are distinct.
IndexMaps(keys) == {[i \in DOMAIN o |-> <<o[i], ValueOf(o[i])>>] : o \in KeyOrders(keys)}

\* storage_diffs: an IndexMap whose values are IndexMaps.
NestedMaps(keys) ==
    UNION {{[i \in DOMAIN o |-> <<o[i], inner[o[i]]>>] :
               inner \in [{o[i] : i \in DOMAIN o} -> IndexMaps(keys)]} : o \in KeyOrders(keys)}

\* The six mappings of a StateDiff.
StateDiffOf(flat, nested) ==
    [deployed_contracts          |-> flat,
     storage_diffs               |-> nested,
     declared_classes            |-> flat,
     deprecated_declared_classes |-> flat,
     nonces                      |-> flat,
     replaced_classes            |-> flat]

FlatMappings == {"deployed_contracts", "declared_classes", "deprecated_declared_classes",
                 "nonces", "replaced_classes"}

\* The entries the other mappings hold for the contracts of storage_diffs, in the same
\* order of delivery.
FlatOf(nested) == [i \in DOMAIN nested |-> <<nested[i][1], ValueOf(nested[i][1])>>]

\* The diffs a source can deliver: any contracts of Keys with any storage entries, in
\* any order of the entries.
StateDiffs(keys) == {StateDiffOf(FlatOf(nested), nested) : nested \in NestedMaps(keys)}

\* Mutant: the entries are put in the reverse of the order they have.
RECURSIVE SortUnstableKeys_Reversed(_)
SortUnstableKeys_Reversed(m) ==
    IF m = <<>> THEN <<>>
    ELSE Append(SortUnstableKeys_Reversed(Tail(m)), Head(m))

\* The entry e put in its place in the sorted entries m.
RECURSIVE InsertByKey(_, _)
InsertByKey(e, m) ==
    IF m = <<>> THEN <<e>>
    ELSE IF e[1] <= Head(m)[1] THEN <<e>> \o m
    ELSE <<Head(m)>> \o InsertByKey(e, Tail(m))

RECURSIVE SortedByKey(_)
SortedByKey(m) ==
    IF m = <<>> THEN <<>> ELSE InsertByKey(Head(m), SortedByKey(Tail(m)))

\* IndexMap::sort_unstable_keys: the entries in ascending order of their keys.
SortUnstableKeys(m) == SortedByKey(m)

\* sort_state_diff: four mappings are sorted, and each value of storage_diffs.
SortStateDiff(diff) ==
    LET outer == SortUnstableKeys(diff.storage_diffs)
    IN  [diff EXCEPT
            !.declared_classes   = SortUnstableKeys(diff.declared_classes),
            !.deployed_contracts = SortUnstableKeys(diff.deployed_contracts),
            !.nonces             = SortUnstableKeys(diff.nonces),
            !.storage_diffs      = [i \in DOMAIN outer |->
                                       <<outer[i][1], SortUnstableKeys(outer[i][2])>>]]

\* One call sort_state_diff(&mut state_diff).
SortStateDiffStep ==
    /\ Len(sort_trace) \in {1, 2}
    /\ sort_trace' = Append(sort_trace, SortStateDiff(sort_trace[Len(sort_trace)]))
    /\ UNCHANGED <<storage, channel, closed, last_route, loop, counts, ro_txns>>

\* ------------------------------------------------- read-only transactions
\* reader.begin_ro_txn() opens one more read-only transaction.
BeginRoTxn(open) == open + 1

\* The transaction goes: drop(txn), or the end of the scope that owns it (a return,
\* also the early return of `?`).
DropTxn(open) == open - 1

\* --------------------------------------------------------- Reorg Detector
\* The transactions open once is_reverted has returned: its txn is a local.
IsRevertedTxns(open) == DropTxn(BeginRoTxn(open))

\* Mutant: the comparison of the hashes is inverted.
IsReverted_SameHash(n, h) ==
    IF headers[n] = NoHeader THEN "None"
    ELSE IF headers[n] = h THEN "SomeTrue" ELSE "SomeFalse"

\* is_reverted without its read failure: Some(true), Some(false) or None.
IsReverted(n, h) ==
    IF headers[n] = NoHeader THEN "None"
    ELSE IF headers[n] # h THEN "SomeTrue" ELSE "SomeFalse"

\* --------------------------------------------------------- storage facade
\* Mutant: append_state_diff does not look at the state marker.
AppendStateDiffOk_NoMarkerCheck(n) == n \in Blocks

\* append_state_diff succeeds only at the state marker.
AppendStateDiffOk(n) == n = state_marker

AppendStateDiff(n, item) ==
    /\ state_diffs' = Append(state_diffs, [number |-> n, item |-> item])
    /\ state_marker' = n + 1

\* insert_ommer_state_diff succeeds only for a hash that has no record yet.
InsertOmmerOk(h) == h \notin ommers

\* The record takes the hash and the diff; the block number is not part of it.
InsertOmmer(h) == ommers' = ommers \cup {h}

\* ---------------------------------------------------------- Commit Router
Route(class, wrote, result) == [class |-> class, wrote |-> wrote, result |-> result]

\* Mutant: a failed append_state_diff is returned as an error (`?` on the append).
StoreStateDiffBody_AppendErr(n, h, fault, canonical) ==
    IF fault = "read"
    THEN /\ last_route' = Route("ReadErr", "nothing", "Err")
         /\ UNCHANGED <<state_diffs, state_marker, ommers>>
    ELSE IF canonical
    THEN IF AppendStateDiffOk(n) /\ fault # "write"
         THEN IF fault = "commit"
              THEN /\ last_route' = Route(IsReverted(n, h), "nothing", "Err")
                   /\ UNCHANGED <<state_diffs, state_marker, ommers>>
              ELSE /\ AppendStateDiff(n, <<n, h>>)
                   /\ last_route' = Route(IsReverted(n, h), "canonical", "Ok")
                   /\ UNCHANGED ommers
         ELSE /\ last_route' = Route(IsReverted(n, h), "nothing", "Err")
              /\ UNCHANGED <<state_diffs, state_marker, ommers>>
    ELSE IF InsertOmmerOk(h) /\ fault # "write"
         THEN IF fault = "commit"
              THEN /\ last_route' = Route(IsReverted(n, h), "nothing", "Err")
                   /\ UNCHANGED <<state_diffs, state_marker, ommers>>
              ELSE /\ InsertOmmer(h)
                   /\ last_route' = Route(IsReverted(n, h), "ommer", "Ok")
                   /\ UNCHANGED <<state_diffs, state_marker>>
         ELSE /\ last_route' = Route(IsReverted(n, h), "nothing", "Ok")
              /\ UNCHANGED <<state_diffs, state_marker, ommers>>

\* The body of store_state_diff(block_number = n, block_hash = h), given the outcome
\* `canonical` of its test `if let Some(false) = is_reverted(..)?`. fault is the
\* storage call that fails in this run, if any: "read" (is_reverted), "write"
\* (append_state_diff or insert_ommer_state_diff) or "commit".
StoreStateDiffBody(n, h, fault, canonical) ==
    IF fault = "read"
    THEN /\ last_route' = Route("ReadErr", "nothing", "Err")
         /\ UNCHANGED <<state_diffs, state_marker, ommers>>
    ELSE IF canonical
    THEN IF AppendStateDiffOk(n) /\ fault # "write"
         THEN IF fault = "commit"
              THEN /\ last_route' = Route(IsReverted(n, h), "nothing", "Err")
                   /\ UNCHANGED <<state_diffs, state_marker, ommers>>
              ELSE /\ AppendStateDiff(n, <<n, h>>)
                   /\ last_route' = Route(IsReverted(n, h), "canonical", "Ok")
                   /\ UNCHANGED ommers
         ELSE /\ last_route' = Route(IsReverted(n, h), "nothing", "Ok")
              /\ UNCHANGED <<state_diffs, state_marker, ommers>>
    ELSE IF InsertOmmerOk(h) /\ fault # "write"
         THEN IF fault = "commit"
              THEN /\ last_route' = Route(IsReverted(n, h), "nothing", "Err")
                   /\ UNCHANGED <<state_diffs, state_marker, ommers>>
              ELSE /\ InsertOmmer(h)
                   /\ last_route' = Route(IsReverted(n, h), "ommer", "Ok")
                   /\ UNCHANGED <<state_diffs, state_marker>>
         ELSE /\ last_route' = Route(IsReverted(n, h), "nothing", "Ok")
              /\ UNCHANGED <<state_diffs, state_marker, ommers>>

\* Mutant: the test is `if let Some(_)`, any stored header.
StoreStateDiff_AnyHeader(n, h, fault) ==
    StoreStateDiffBody(n, h, fault, IsReverted(n, h) # "None")

\* Mutant: the test is "not Some(true)", so that an unknown header is appended.
StoreStateDiff_NotDiverged(n, h, fault) ==
    StoreStateDiffBody(n, h, fault, IsReverted(n, h) # "SomeTrue")

\* Mutant: the two branches are swapped.
StoreStateDiff_Swapped(n, h, fault) ==
    StoreStateDiffBody(n, h, fault, IsReverted(n, h) # "SomeFalse")

\* store_state_diff: the canonical branch is taken for Some(false) alone.
StoreStateDiff(n, h, fault) ==
    StoreStateDiffBody(n, h, fault, IsReverted(n, h) = "SomeFalse")

\* The storage faults a store_state_diff call can meet.
RouteFaults(faulty) == IF faulty THEN {"no", "read", "write", "commit"} ELSE {"no"}

\* The consumer of the channel: takes the oldest event and routes it.
RouterStep(faulty) ==
    /\ ~closed
    /\ channel # <<>>
    /\ channel' = Tail(channel)
    /\ \E fault \in RouteFaults(faulty) :
           StoreStateDiff(Head(channel)[1], Head(channel)[2], fault)
    /\ UNCHANGED <<headers, header_marker, closed, loop, counts, ro_txns, normalizer>>

\* The consumer shuts down: the receiver is dropped with what it holds.
CloseChannel ==
    /\ ~closed
    /\ closed' = TRUE
    /\ channel' = <<>>
    /\ UNCHANGED <<storage, last_route, loop, counts, ro_txns, normalizer>>

\* The header pipeline appends the next header.
AppendHeader ==
    /\ header_marker < MaxBlock
    /\ \E h \in Hashes : headers' = [headers EXCEPT ![header_marker] = h]
    /\ header_marker' = header_marker + 1
    /\ UNCHANGED <<state_marker, state_diffs, ommers, channel, closed, last_route, loop,
                   counts, ro_txns, normalizer>>

\* -------------------------------------------------------------- Sync Loop
\* tokio::time::sleep(recoverable_error_sleep_duration) starts, after the source has
\* failed `failed` more times.
RecoverableSleep(failed) ==
    /\ fails_left' = fails_left - failed
    /\ err_sleeps' = IF err_sleeps < SrcFails + failed THEN err_sleeps + 1 ELSE err_sleeps

\* The pass is over: its stream and its locals are dropped.
EndPass ==
    /\ range' = NoRange
    /\ pos' = 0
    /\ cur' = NoItem

\* Mutant: the Err arm continues without the sleep.
OnPassErr_NoSleep(failed, call) ==
    /\ pc' = "read_markers"
    /\ err' = "none"
    /\ fails_left' = fails_left - failed
    /\ UNCHANGED err_sleeps
    /\ EndPass

\* The Err arm of run_state_diff_sync: warn, then sleep.
OnPassErr(failed, call) ==
    /\ pc' = "error_sleep"
    /\ err' = call
    /\ RecoverableSleep(failed)
    /\ EndPass

\* Mutant: equal markers do not idle, the (empty) range is requested.
ReadMarkers_NoIdle(faulty) ==
    /\ pc = "read_markers"
    /\ \E fail \in Faults(faulty) :
        IF fail
        THEN /\ OnPassErr(0, "markers")
             /\ ro_txns' = DropTxn(BeginRoTxn(ro_txns))
        ELSE /\ pc' = "next"
             /\ ro_txns' = DropTxn(BeginRoTxn(ro_txns))
             /\ range' = <<state_marker, header_marker>>
             /\ pos' = state_marker
             /\ UNCHANGED <<cur, err, counts>>
    /\ UNCHANGED <<storage, channel, closed, last_route, normalizer>>

\* Mutant: the requested range includes the header marker.
ReadMarkers_PastHeader(faulty) ==
    /\ pc = "read_markers"
    /\ \E fail \in Faults(faulty) :
        IF fail
        THEN /\ OnPassErr(0, "markers")
             /\ ro_txns' = DropTxn(BeginRoTxn(ro_txns))
        ELSE IF state_marker = header_marker
        THEN /\ pc' = "idle_sleep"
             /\ ro_txns' = DropTxn(BeginRoTxn(ro_txns))
             /\ UNCHANGED <<range, pos, cur, err, counts>>
        ELSE /\ pc' = "next"
             /\ ro_txns' = DropTxn(BeginRoTxn(ro_txns))
             /\ range' = <<state_marker, header_marker + 1>>
             /\ pos' = state_marker
             /\ UNCHANGED <<cur, err, counts>>
    /\ UNCHANGED <<storage, channel, closed, last_route, normalizer>>

\* Mutant: without drop(txn) the transaction lives until the pass returns.
ReadMarkers_TxnHeld(faulty) ==
    /\ pc = "read_markers"
    /\ \E fail \in Faults(faulty) :
        IF fail
        THEN /\ OnPassErr(0, "markers")
             /\ ro_txns' = DropTxn(BeginRoTxn(ro_txns))
        ELSE IF state_marker = header_marker
        THEN /\ pc' = "idle_sleep"
             /\ ro_txns' = BeginRoTxn(ro_txns)
             /\ UNCHANGED <<range, pos, cur, err, counts>>
        ELSE /\ pc' = "next"
             /\ ro_txns' = BeginRoTxn(ro_txns)
             /\ range' = <<state_marker, header_marker>>
             /\ pos' = state_marker
             /\ UNCHANGED <<cur, err, counts>>
    /\ UNCHANGED <<storage, channel, closed, last_route, normalizer>>

\* begin_ro_txn, get_state_marker, get_header_marker, drop(txn), and the test
\* state_marker == last_block_number.
ReadMarkers(faulty) ==
    /\ pc = "read_markers"
    /\ \E fail \in Faults(faulty) :
        IF fail
        THEN /\ OnPassErr(0, "markers")
             /\ ro_txns' = DropTxn(BeginRoTxn(ro_txns))
        ELSE IF state_marker = header_marker
        THEN /\ pc' = "idle_sleep"
             /\ ro_txns' = DropTxn(BeginRoTxn(ro_txns))
             /\ UNCHANGED <<range, pos, cur, err, counts>>
        ELSE /\ pc' = "next"
             /\ ro_txns' = DropTxn(BeginRoTxn(ro_txns))
             /\ range' = <<state_marker, header_marker>>
             /\ pos' = state_marker
             /\ UNCHANGED <<cur, err, counts>>
    /\ UNCHANGED <<storage, channel, closed, last_route, normalizer>>

\* The sleep of block_propagation_sleep_duration ends; Ok(()) => continue.
IdleWake ==
    /\ pc = "idle_sleep"
    /\ pc' = "read_markers"
    /\ UNCHANGED <<storage, channel, closed, last_route, range, pos, cur, err, counts,
                   ro_txns, normalizer>>

\* What state_diff_stream.next() can give: "end" (None), "err" (Some(Err)) or an item.
\* An ordered source yields the blocks of the requested range in order, with the hash
\* of the stored header where there is one, and fails while fails_left allows it; any
\* other source yields anything at any time.
SourceYields(ordered) ==
    IF ordered
    THEN IF pos >= range[2] THEN {<<"end", NoItem>>}
         ELSE {<<"item", <<pos, h>>>> :
                  h \in IF headers[pos] = NoHeader THEN Hashes ELSE {headers[pos]}}
              \cup (IF fails_left > 0 THEN {<<"err", NoItem>>} ELSE {})
    ELSE {<<"end", NoItem>>, <<"err", NoItem>>} \cup {<<"item", it>> : it \in Items}

\* state_diff_stream.next().await and maybe_state_diff?. The call of sort_state_diff on
\* the diff of the item moves the entries of the diff and nothing else; an item being
\* identified by its number and hash, that call is followed in SortStateDiffStep.
StreamNext(ordered) ==
    /\ pc = "next"
    /\ \E y \in SourceYields(ordered) :
        CASE y[1] = "end" ->
               /\ pc' = "read_markers"
               /\ EndPass
               /\ UNCHANGED <<err, counts>>
          [] y[1] = "err" ->
               OnPassErr(IF ordered THEN 1 ELSE 0, "stream")
          [] y[1] = "item" ->
               /\ pc' = "send"
               /\ cur' = y[2]
               /\ pos' = IF ordered THEN pos + 1 ELSE pos
               /\ UNCHANGED <<range, err, counts>>
    /\ UNCHANGED <<storage, channel, closed, last_route, ro_txns, normalizer>>

\* Mutant: the item is not put on the channel (a try_send whose Full is ignored).
Send_Dropped ==
    /\ pc = "send"
    /\ IF closed
       THEN /\ OnPassErr(0, "send")
            /\ UNCHANGED channel
       ELSE /\ UNCHANGED channel
            /\ pc' = "classify"
            /\ UNCHANGED <<range, pos, cur, err, counts>>
    /\ UNCHANGED <<storage, closed, last_route, ro_txns, normalizer>>

\* self.sender.send(...).await?
Send ==
    /\ pc = "send"
    /\ IF closed
       THEN /\ OnPassErr(0, "send")
            /\ UNCHANGED channel
       ELSE /\ Len(channel) < ChanCap
            /\ channel' = Append(channel, cur)
            /\ pc' = "classify"
            /\ UNCHANGED <<range, pos, cur, err, counts>>
    /\ UNCHANGED <<storage, closed, last_route, ro_txns, normalizer>>

\* Mutant: a diverged item does not end the pass.
Classify_NoBreak(faulty) ==
    /\ pc = "classify"
    /\ \E fail \in Faults(faulty) :
        IF fail
        THEN OnPassErr(0, "header")
        ELSE /\ pc' = "next"
             /\ cur' = NoItem
             /\ UNCHANGED <<range, pos, err, counts>>
    /\ ro_txns' = IsRevertedTxns(ro_txns)
    /\ UNCHANGED <<storage, channel, closed, last_route, normalizer>>

\* is_reverted(self.reader.clone(), block_number, block_hash)? after the send.
Classify(faulty) ==
    /\ pc = "classify"
    /\ \E fail \in Faults(faulty) :
        IF fail
        THEN OnPassErr(0, "header")
        ELSE IF IsReverted(cur[1], cur[2]) = "SomeTrue"
        THEN /\ pc' = "reorg_sleep"
             /\ RecoverableSleep(0)
             /\ EndPass
             /\ UNCHANGED err
        ELSE /\ pc' = "next"
             /\ cur' = NoItem
             /\ UNCHANGED <<range, pos, err, counts>>
    /\ ro_txns' = IsRevertedTxns(ro_txns)
    /\ UNCHANGED <<storage, channel, closed, last_route, normalizer>>

\* The sleep before the break ends; the pass returns Ok(()).
ReorgWake ==
    /\ pc = "reorg_sleep"
    /\ pc' = "read_markers"
    /\ UNCHANGED <<storage, channel, closed, last_route, range, pos, cur, err, counts,
                   ro_txns, normalizer>>

\* The sleep of the Err arm ends; continue.
ErrorWake ==
    /\ pc = "error_sleep"
    /\ pc' = "read_markers"
    /\ err' = "none"
    /\ UNCHANGED <<storage, channel, closed, last_route, range, pos, cur, counts,
                   ro_txns, normalizer>>

\* ---------------------------------------------------------- specifications
Init ==
    /\ headers = [n \in Blocks |-> NoHeader]
    /\ header_marker = 0
    /\ state_marker = 0
    /\ state_diffs = <<>>
    /\ ommers = {}
    /\ channel = <<>>
    /\ closed = FALSE
    /\ last_route = Route("none", "nothing", "none")
    /\ pc = "read_markers"
    /\ range = NoRange
    /\ pos = 0
    /\ cur = NoItem
    /\ err = "none"
    /\ fails_left = MaxFail
    /\ err_sleeps = 0
    /\ ro_txns = 0
    /\ sort_trace = <<>>

Next ==
    \/ ReadMarkers(TRUE)
    \/ IdleWake
    \/ StreamNext(FALSE)
    \/ Send
    \/ Classify(TRUE)
    \/ ReorgWake
    \/ ErrorWake
    \/ RouterStep(TRUE)
    \/ CloseChannel
    \/ AppendHeader

Spec == Init /\ [][Next]_vars

\* The engine against an ordered source that fails at most MaxFail times, a storage
\* that does not fail and a consumer that stays; both tasks are scheduled fairly.
LoopStep ==
    \/ ReadMarkers(FALSE)
    \/ IdleWake
    \/ StreamNext(TRUE)
    \/ Send
    \/ Classify(FALSE)
    \/ ErrorWake

LiveNext ==
    \/ LoopStep
    \/ RouterStep(FALSE)
    \/ AppendHeader

LiveSpec ==
    /\ Init
    /\ [][LiveNext]_vars
    /\ WF_vars(LoopStep)
    /\ WF_vars(RouterStep(FALSE))

\* Spec with both tasks scheduled fairly.
FairLoopStep ==
    \/ ReadMarkers(TRUE)
    \/ IdleWake
    \/ StreamNext(FALSE)
    \/ Send
    \/ Classify(TRUE)
    \/ ReorgWake
    \/ ErrorWake

FairNext ==
    \/ FairLoopStep
    \/ RouterStep(TRUE)
    \/ CloseChannel
    \/ AppendHeader

FairSpec ==
    /\ Init
    /\ [][FairNext]_vars
    /\ WF_vars(FairLoopStep)
    /\ WF_vars(RouterStep(TRUE))

\* The concrete scenario of the specification: state marker 0, header marker 2, a header
\* stored at 0, and at 1 either no header (as the scenario has it) or a stored one; the
\* source serves blocks 0 and 1 without failing, the storage does not fail.
ScenarioInit ==
    /\ \E h0 \in Hashes, h1 \in Hashes \cup {NoHeader} :
           headers = [n \in Blocks |-> IF n = 0 THEN h0 ELSE IF n = 1 THEN h1 ELSE NoHeader]
    /\ header_marker = 2
    /\ state_marker = 0
    /\ state_diffs = <<>>
    /\ ommers = {}
    /\ channel = <<>>
    /\ closed = FALSE
    /\ last_route = Route("none", "nothing", "none")
    /\ pc = "read_markers"
    /\ range = NoRange
    /\ pos = 0
    /\ cur = NoItem
    /\ err = "none"
    /\ fails_left = 0          \* the source has no failure left
    /\ err_sleeps = MaxFail
    /\ ro_txns = 0
    /\ sort_trace = <<>>

ScenarioLoopStep ==
    \/ ReadMarkers(FALSE)
    \/ IdleWake
    \/ StreamNext(TRUE)
    \/ Send
    \/ Classify(FALSE)

ScenarioNext ==
    \/ ScenarioLoopStep
    \/ RouterStep(FALSE)

ScenarioSpec ==
    /\ ScenarioInit
    /\ [][ScenarioNext]_vars
    /\ WF_vars(ScenarioLoopStep)
    /\ WF_vars(RouterStep(FALSE))

\* sort_state_diff on its own: the source delivers any diff of StateDiffs(Keys), and the
\* function is called on it, and once more on its result.
SortInit ==
    /\ headers = [n \in Blocks |-> NoHeader]
    /\ header_marker = 0
    /\ state_marker = 0
    /\ state_diffs = <<>>
    /\ ommers = {}
    /\ channel = <<>>
    /\ closed = FALSE
    /\ last_route = Route("none", "nothing", "none")
    /\ pc = "read_markers"
    /\ range = NoRange
    /\ pos = 0
    /\ cur = NoItem
    /\ err = "none"
    /\ fails_left = MaxFail
    /\ err_sleeps = 0
    /\ ro_txns = 0
    /\ \E diff \in StateDiffs(Keys) : sort_trace = <<diff>>

SortNext == SortStateDiffStep

SortSpec == SortInit /\ [][SortNext]_vars

\* ------------------------------------------------------------------ claims
\* The contract of the Reorg Detector: Unknown, Confirmed or Diverged.
Classification(n, h) ==
    CASE headers[n] = NoHeader -> "None"
      [] headers[n] = h -> "SomeFalse"
      [] OTHER -> "SomeTrue"

\* A step in which the consumer takes the oldest event and routes it.
RouterTakes ==
    /\ ~closed
    /\ channel # <<>>
    /\ channel' = Tail(channel)
    /\ closed' = closed

RoutedNumber == Head(channel)[1]
RoutedHash   == Head(channel)[2]

\* C1: when store_state_diff is called with (n, h2, diff) while a header with another
\* hash h1 is stored at n, canonical storage and the markers stay as they are; the only
\* write there can be is the ommer record keyed by h2.
C1_ReorgRouting ==
    [][(RouterTakes /\ IsReverted(RoutedNumber, RoutedHash) = "SomeTrue")
        => /\ state_diffs' = state_diffs
           /\ state_marker' = state_marker
           /\ header_marker' = header_marker
           /\ headers' = headers
           /\ ommers' \in {ommers, ommers \cup {RoutedHash}}]_vars

\* C1 witness: a call that found the header diverged has stored the ommer record.
C1_Witness == last_route = Route("SomeTrue", "ommer", "Ok")

C3_MarkerMonotonic ==
    /\ [](state_marker <= header_marker)
    /\ [][state_marker' >= state_marker]_vars

\* C3 witness: the state marker has advanced up to the header marker.
C3_Witness == state_marker > 0 /\ state_marker = header_marker

\* C4: canonical storage holds exactly one state diff, that of block n, for every n
\* below the state marker, and none at or above it.
C4_NoSkipNoDuplicate ==
    \A n \in 0 .. MaxBlock :
        LET at == {i \in DOMAIN state_diffs : state_diffs[i].number = n}
        IN  IF n < state_marker
            THEN /\ Cardinality(at) = 1
                 /\ \A i \in at : state_diffs[i].item[1] = n
            ELSE at = {}

\* C4 witness: a block that is already committed is in flight once more, and the last
\* call has skipped such an item.
C4_Witness ==
    /\ channel # <<>>
    /\ Head(channel)[1] < state_marker
    /\ Head(channel)[2] = headers[Head(channel)[1]]
    /\ last_route = Route("SomeFalse", "nothing", "Ok")

\* C5: under fair scheduling, with a source that fails at most MaxFail times, every
\* block below the header marker is eventually committed, and by then the loop has
\* started a recoverable-error sleep for each failure of the source.
C5_Liveness ==
    \A t \in 1 .. MaxBlock :
        (header_marker = t) ~> (state_marker >= t /\ err_sleeps >= SrcFails)

\* C5 witness: the source has failed MaxFail times and everything is committed.
C5_Witness ==
    /\ fails_left = 0
    /\ err_sleeps = MaxFail
    /\ state_marker = MaxBlock


\* The router commits the state diff of block n at the state marker n.
CommitsAt(n) ==
    /\ state_marker' = n + 1
    /\ state_diffs' = Append(state_diffs, [number |-> n, item |-> <<n, RoutedHash>>])

LoopLeaves(place) == pc = place /\ pc' # place

\* C7: an item is classified only after it was forwarded; a diverged item ends the pass
\* (no further item of the stream), the loop sleeps once and then re-reads the markers;
\* otherwise the loop goes on with the next item of the same stream. No step of the
\* loop moves the state marker.
C7_ClassifySteps ==
    /\ (pc' = "classify" /\ pc # "classify")
       => (pc = "send" /\ channel' = Append(channel, cur) /\ cur' = cur)
    /\ LoopLeaves("classify")
       => /\ UNCHANGED <<storage, channel>>
          /\ IF IsReverted(cur[1], cur[2]) = "SomeTrue"
             THEN pc' \in {"reorg_sleep", "error_sleep"} /\ range' = NoRange
             ELSE pc' \in {"next", "error_sleep"} /\ (pc' = "next" => range' = range)
    /\ LoopLeaves("reorg_sleep")
       => (pc' = "read_markers" /\ UNCHANGED <<storage, channel, counts>>)

C7_DivergenceInLoop == [][C7_ClassifySteps]_vars

\* C7 witness: the loop sleeps after a diverged item, which the router has stored as
\* an ommer, and the state marker has not moved.
C7_Witness ==
    /\ pc = "reorg_sleep"
    /\ last_route = Route("SomeTrue", "ommer", "Ok")
    /\ state_marker = 0

\* The error of `call` is raised in this step.
Raised(call) == err = "none" /\ err' = call

\* The item in hand, if there is one, has not been sent on the channel.
NotForwarded == cur = NoItem \/ pc = "send"

\* C8 as stated: a failed marker read, an Err item and a failed header read of the
\* classification end the pass without the item in hand having been forwarded.
C8_Original ==
    [][(Raised("markers") \/ Raised("stream") \/ Raised("header")) => NotForwarded]_vars

\* C8 as amended: an error of a pass (marker read, Err item of the stream, failed send,
\* header read of the classification) ends the pass, the loop sleeps and then starts a
\* new pass, and it never stops; with a failed marker read or an Err item no item is
\* forwarded, while a failed header read comes after its item was forwarded.
C8_ErrorSteps ==
    /\ (pc' = "error_sleep" /\ pc # "error_sleep")
       => /\ err' = CASE pc = "read_markers" -> "markers"
                      [] pc = "next" -> "stream"
                      [] pc = "send" -> "send"
                      [] pc = "classify" -> "header"
                      [] OTHER -> "none"
          /\ range' = NoRange /\ cur' = NoItem
          /\ UNCHANGED <<storage, channel>>
          /\ (pc = "send" => closed)
    /\ (Raised("markers") \/ Raised("stream") \/ Raised("send"))
       => (pc' = "error_sleep" /\ NotForwarded)
    /\ Raised("header")
       => (pc' = "error_sleep" /\ pc = "classify" /\ cur # NoItem)
    /\ LoopLeaves("read_markers") => pc' \in {"idle_sleep", "next", "error_sleep"}
    /\ LoopLeaves("next") => pc' \in {"read_markers", "send", "error_sleep"}
    /\ LoopLeaves("send") => pc' = (IF closed THEN "error_sleep" ELSE "classify")
    /\ LoopLeaves("classify") => pc' \in {"next", "reorg_sleep", "error_sleep"}
    /\ LoopLeaves("error_sleep") => pc' = "read_markers"

C8_RecoverableErrors ==
    /\ [][C8_ErrorSteps]_vars
    /\ [](pc = "error_sleep" => ENABLED ErrorWake)
    /\ [](pc = "read_markers" => ENABLED ReadMarkers(TRUE))

\* C8 witness: the header read of the classification has failed after the item was
\* forwarded, and the loop sleeps.
C8_Witness ==
    /\ pc = "error_sleep"
    /\ err = "header"
    /\ channel # <<>>

\* C9: once the channel is closed and a send has failed on it, the Sync Loop eventually
\* terminates.
C9_Shutdown == (closed /\ err = "send") ~> (pc = "terminated")

C11_ClassifySteps ==
    /\ LoopLeaves("classify")
       => /\ UNCHANGED storage
          /\ pc' = "reorg_sleep" => headers[cur[1]] \notin {NoHeader, cur[2]}
          /\ pc' = "next" => headers[cur[1]] \in {NoHeader, cur[2]}
    /\ RouterTakes
       => /\ last_route'.class \in {Classification(RoutedNumber, RoutedHash), "ReadErr"}
          /\ last_route'.class = "ReadErr" => UNCHANGED storage
          /\ UNCHANGED <<headers, header_marker>>

C11_Classification ==
    /\ [](\A n \in Blocks, h \in Hashes :
            /\ IsReverted(n, h) = "None" <=> headers[n] = NoHeader
            /\ IsReverted(n, h) = "SomeFalse" <=> headers[n] = h
            /\ IsReverted(n, h) = "SomeTrue" <=> headers[n] \notin {NoHeader, h})
    /\ [][C11_ClassifySteps]_vars

\* C11 witness: the loop has found its item diverged, the router has found an item
\* confirmed, and a block has no header yet.
C11_Witness ==
    /\ pc = "reorg_sleep"
    /\ last_route.class = "SomeFalse"
    /\ \E n \in Blocks : headers[n] = NoHeader

\* A mapping as the set of its key-to-value pairs.
AsMapping(m) == {<<m[i][1], m[i][2]>> : i \in DOMAIN m}

\* Two orderings of the same mapping: the same pairs, each once.
SameMapping(a, b) == AsMapping(a) = AsMapping(b) /\ Len(a) = Len(b)

\* The same for storage_diffs, whose values are mappings.
SameNestedMapping(a, b) ==
    /\ Len(a) = Len(b)
    /\ {a[i][1] : i \in DOMAIN a} = {b[i][1] : i \in DOMAIN b}
    /\ \A i \in DOMAIN a, j \in DOMAIN b :
           a[i][1] = b[j][1] => SameMapping(a[i][2], b[j][2])

\* C12: sort_state_diff applied twice gives what it gives applied once, and its result
\* has the key-to-value pairs of the diff it was given in every mapping, the storage
\* mapping of each contract included.
C12_IdempotentPreserving ==
    /\ Len(sort_trace) >= 2
       => /\ \A f \in FlatMappings : SameMapping(sort_trace[2][f], sort_trace[1][f])
          /\ SameNestedMapping(sort_trace[2].storage_diffs, sort_trace[1].storage_diffs)
    /\ Len(sort_trace) >= 3 => sort_trace[3] = sort_trace[2]

\* C12 witness: the second call is done on a diff whose entries the first call has
\* moved, with two contracts in storage_diffs, one of them with two entries.
C12_Witness ==
    /\ Len(sort_trace) = 3
    /\ sort_trace[2] # sort_trace[1]
    /\ Len(sort_trace[2].storage_diffs) >= 2
    /\ \E i \in DOMAIN sort_trace[2].storage_diffs :
           Len(sort_trace[2].storage_diffs[i][2]) >= 2

\* The keys of the entries come in ascending order.
Ascending(m) == \A i \in 1 .. (Len(m) - 1) : m[i][1] < m[i + 1][1]

\* C13: after sort_state_diff every mapping of the diff (deployed contracts, storage
\* diffs and the entries of each contract, declared classes, nonces, deprecated
\* declared classes, replaced classes) has its keys in ascending order.
C13_Canonical ==
    Len(sort_trace) >= 2
    => /\ \A f \in FlatMappings : Ascending(sort_trace[2][f])
       /\ Ascending(sort_trace[2].storage_diffs)
       /\ \A i \in DOMAIN sort_trace[2].storage_diffs :
              Ascending(sort_trace[2].storage_diffs[i][2])

\* C14: a pass that reads equal markers requests no stream and forwards nothing; the
\* loop sleeps once, the idle sleep and no recoverable-error sleep, and then reads the
\* markers again. A pass that requests a stream has read different markers.
C14_IdleSteps ==
    /\ (pc = "read_markers" /\ pc' = "idle_sleep")
       => /\ state_marker = header_marker
          /\ range = NoRange /\ range' = NoRange
          /\ UNCHANGED <<storage, channel, cur, counts>>
    /\ (pc = "read_markers" /\ pc' = "next") => state_marker # header_marker
    /\ (LoopLeaves("read_markers") /\ state_marker = header_marker)
       => pc' \in {"idle_sleep", "error_sleep"}
    /\ pc' = "idle_sleep" => pc \in {"read_markers", "idle_sleep"}
    /\ pc = "idle_sleep"
       => /\ pc' \in {"idle_sleep", "read_markers"}
          /\ Len(channel') <= Len(channel)
          /\ UNCHANGED <<range, cur, err, counts>>

C14_IdleWait ==
    /\ [][C14_IdleSteps]_vars
    /\ [](pc = "idle_sleep" => ENABLED IdleWake)

\* C14 witness: everything below the header marker is committed, nothing is in flight
\* and the loop is in its idle sleep.
C14_Witness ==
    /\ pc = "idle_sleep"
    /\ state_marker = header_marker
    /\ state_marker = Len(state_diffs)
    /\ state_marker > 0
    /\ channel = <<>>

\* C15: the loop forwards the items in the order the source yields them and the router
\* takes them in that order; with a source that delivers the requested range in
\* increasing order, the items of a pass are forwarded with block numbers that go up
\* by one from the start of the range, none dropped or moved.
C15_OrderSteps ==
    /\ (pc = "next" /\ pc' = "send")
       => /\ cur'[1] = pos /\ pos' = pos + 1
          /\ range[1] <= pos /\ pos < range[2]
          /\ UNCHANGED <<channel, range>>
    /\ LoopLeaves("send") => (pc' = "classify" /\ channel' = Append(channel, cur))
    /\ cur' # cur => ((pc = "next" /\ pc' = "send") \/ cur' = NoItem)
    /\ (pos' # pos /\ pc = "next") => (pos' = pos + 1 \/ range' = NoRange)
    /\ channel' # channel
       => \/ pc = "send" /\ channel' = Append(channel, cur)
          \/ /\ channel' = Tail(channel)
             /\ UNCHANGED loop
             /\ state_diffs' # state_diffs
                => state_diffs' = Append(state_diffs,
                                         [number |-> RoutedNumber, item |-> Head(channel)])

C16_StructuralSkip ==
    [][/\ (RouterTakes /\ last_route'.class = "SomeFalse" /\ RoutedNumber # state_marker)
          => (UNCHANGED storage /\ last_route' = Route("SomeFalse", "nothing", "Ok"))
       /\ (RouterTakes /\ last_route' = Route("SomeFalse", "nothing", "Ok"))
          => UNCHANGED storage]_vars

\* C16 witness: the router has skipped an item of a block that is already committed,
\* and has an event to go on with.
C16_Witness ==
    /\ last_route = Route("SomeFalse", "nothing", "Ok")
    /\ state_marker > 0
    /\ channel # <<>>

\* C17: a Catching-Up pass requests exactly [state_marker, header_marker) as read at
\* its start; the requested range never reaches the header marker, and no state diff
\* is in canonical storage for a block at or beyond the header marker.
C17_RangeSteps ==
    /\ (pc = "read_markers" /\ pc' = "next")
       => (range' = <<state_marker, header_marker>> /\ state_marker < header_marker)
    /\ range' # range => ((pc = "read_markers" /\ pc' = "next") \/ range' = NoRange)

C17_RequestedRange ==
    /\ [][C17_RangeSteps]_vars
    /\ [](range # NoRange
           => (range[1] < range[2] /\ range[2] <= header_marker /\ range[1] <= state_marker))
    /\ [](\A i \in DOMAIN state_diffs : state_diffs[i].number < header_marker)

\* C17 witness: a pass has requested [1, 2) and block 1 is committed meanwhile.
C17_Witness ==
    /\ pc = "next"
    /\ range = <<1, 2>>
    /\ state_marker = 2

\* C18: the router's choice follows the header as it is stored when store_state_diff
\* runs: a canonical append only under a header with the item's hash, an ommer only
\* otherwise, whatever the loop found before; the call does not touch the loop.
C18_RouterDecides ==
    [][RouterTakes
        => /\ last_route'.class \in {Classification(RoutedNumber, RoutedHash), "ReadErr"}
           /\ last_route'.wrote = "canonical"
              => (Classification(RoutedNumber, RoutedHash) = "SomeFalse"
                  /\ CommitsAt(RoutedNumber))
           /\ last_route'.wrote = "ommer"
              => (Classification(RoutedNumber, RoutedHash) # "SomeFalse"
                  /\ ommers' = ommers \cup {RoutedHash})
           /\ UNCHANGED loop]_vars

\* C18 witness: the pass under way began when the header marker was 1; the item with
\* another block number and hash h it forwarded could only be found Unknown by the
\* loop's check, which let the pass go on; a header with another hash was then stored
\* at that number, and the router, finding the item Diverged, made it the one ommer.
C18_Witness ==
    /\ pc = "next"
    /\ range = <<0, 1>>
    /\ \E h \in Hashes :
           /\ headers[0] = h
           /\ headers[1] \notin {NoHeader, h}
           /\ ommers = {h}
    /\ last_route = Route("SomeTrue", "ommer", "Ok")

\* C19: wherever the Sync Loop is suspended (a sleep, the wait for the next item of
\* the stream, a send on the channel) and between its passes, it holds no read-only
\* transaction.
C19_NoTxnAcrossWait ==
    pc \in {"read_markers", "idle_sleep", "next", "send", "classify", "reorg_sleep",
            "error_sleep"}
    => ro_txns = 0

\* C19 witness: the loop is blocked in a send on a full channel, after the marker read
\* of this pass.
C19_Witness ==
    /\ pc = "send"
    /\ ~closed
    /\ Len(channel) = ChanCap
    /\ range # NoRange
    /\ ro_txns = 0

\* C20: in both branches of store_state_diff a failure to persist the item, of the
\* append or insert or of the commit, leaves the call returning Ok.
C20_BestEffort ==
    [][(RouterTakes /\ last_route'.class \in {"SomeFalse", "SomeTrue", "None"})
        => last_route'.result = "Ok"]_vars

\* C21: an item of the stream that cannot be the next expected one of its pass (its
\* block number is below the start of the requested range, where every earlier item
\* of the pass is, or at or beyond its end) is not forwarded to the Commit Router: the
\* loop takes the recoverable-error path instead.
C21_OutOfOrderIsError ==
    [][(pc = "send" /\ channel' = Append(channel, cur))
        => (range[1] <= cur[1] /\ cur[1] < range[2])]_vars

\* C22: every diff in canonical storage at block n has the hash of the header stored
\* at n, and was appended by a store_state_diff call that found that header; a routed
\* item whose header is absent or has another hash is never appended and never moves
\* the state marker.
C22_AppendSteps ==
    /\ (RouterTakes /\ headers[RoutedNumber] # RoutedHash)
       => UNCHANGED <<state_diffs, state_marker>>
    /\ state_diffs' # state_diffs
       => (RouterTakes /\ headers[RoutedNumber] = RoutedHash
           /\ last_route' = Route("SomeFalse", "canonical", "Ok"))

C22_ConfirmedAppendOnly ==
    /\ [](\A i \in DOMAIN state_diffs :
            /\ state_diffs[i].item[1] = state_diffs[i].number
            /\ headers[state_diffs[i].number] = state_diffs[i].item[2])
    /\ [][C22_AppendSteps]_vars

\* C22 witness: a diff is in canonical storage, and the last call, for an item whose
\* header is not stored, has written an ommer record instead.
C22_Witness ==
    /\ Len(state_diffs) >= 1
    /\ last_route = Route("None", "ommer", "Ok")

====
